---- MODULE Spec2Model ----
(***************************************************************************)
(* A model of freecell_solver.py: the card and stack data model, the      *)
(* Board with its move generator, make_move / undo_last_move, is_solved   *)
(* and the save_game serialization used as the hash key, the deal loader  *)
(* load_game, the move ordering and redundancy filter, and the depth      *)
(* limited backtracking search full_recursive_search with its global      *)
(* boards_seen table.                                                      *)
(*                                                                         *)
(* The deck and the board are scaled down: NumSuits suits of NumValues     *)
(* ranks (the highest rank plays the King), NumFreeCells free cells,       *)
(* NumHomeStacks home stacks and NumSourceStacks source stacks.            *)
(*                                                                         *)
(* The specifications share the state: Spec runs full_recursive_search on  *)
(* a dealt board, FairSpec is Spec run to completion, CallerSpec adds a    *)
(* caller that undoes moves on the board the search returned, PlaySpec     *)
(* makes and undoes generator moves freely, and TwinSpec walks the         *)
(* configurations with and without the redundancy filter side by side.     *)
(***************************************************************************)
EXTENDS Integers, Sequences, FiniteSets, TLC

(***************************************************************************)
(* Bounds of the model.                                                    *)
(***************************************************************************)
NumSuits == 2
NumValues == 3
NumFreeCells == 2
NumHomeStacks == 2
NumSourceStacks == 2
MaxDepth == 8
MaxHistory == 2

(***************************************************************************)
(* Cards.                                                                  *)
(***************************************************************************)
\* The members of Suit, in the enumeration's order.
SuitOrder == <<"H", "C", "S", "D">>

Suit == {SuitOrder[i] : i \in 1..(IF NumSuits < 4 THEN NumSuits ELSE 4)}

\* The texts of the members of Value, in the enumeration's order.
ValueNames == <<"A", "2", "3", "4", "5", "6", "7", "8", "9", "T", "J", "Q", "K">>

\* A Value is represented by its value_order number; its text is ValueNames[value].
Value == 1..NumValues

\* Value(value_str): the member whose text is value_str.
ValueOf(value_str) == CHOOSE v \in DOMAIN ValueNames : ValueNames[v] = value_str

ACE == 1

KING == NumValues

suit_color(suit) == IF suit \in {"H", "D"} THEN "R" ELSE "B"

value_order(value) == value

Card(suit, value) == [suit |-> suit, value |-> value]

\* Suit(suit_str): the member whose text is suit_str (a suit is represented by its text).
SuitOf(suit_str) == CHOOSE s \in {SuitOrder[i] : i \in DOMAIN SuitOrder} : s = suit_str

\* A card name is the pair <<value text, suit text>>; the result is (suit, value).
parse_card_name(name) ==
    LET value_str == name[1]
        suit_str == name[Len(name)]
    IN  <<SuitOf(suit_str), ValueOf(value_str)>>

\* from_name unpacks parse_card_name's pair as (value, suit) and hands the two to
\* the constructor in that order, so the first of the pair becomes the suit.
from_name(name) ==
    LET parsed == parse_card_name(name)
        value == parsed[1]
        suit == parsed[2]
    IN  Card(value, suit)

\* str(card): the value text followed by the suit text.
card_str(card) == <<ValueNames[card.value], card.suit>>

\* Deck.generate: for suit in Suit, for value in Value.
Generate ==
    [k \in 1..(Cardinality(Suit) * NumValues) |->
        Card(SuitOrder[((k - 1) \div NumValues) + 1], ((k - 1) % NumValues) + 1)]

DeckCards == {Generate[k] : k \in DOMAIN Generate}

(***************************************************************************)
(* Stacks.  NoCard stands for Python's None.                               *)
(***************************************************************************)
NoCard == [suit |-> "None", value |-> 0]

top_card(cards) == IF cards /= <<>> THEN cards[Len(cards)] ELSE NoCard

\* card_at takes a 0-based index.
card_at(cards, index) == IF index < Len(cards) THEN cards[index + 1] ELSE NoCard

\* pop_card on a non-empty list: the list left behind.
pop_card(cards) == SubSeq(cards, 1, Len(cards) - 1)

push_card(cards, card) == Append(cards, card)

\* A faulty FreeCell.can_accept_card, which accepts a card on a card.
FreeCell_accepts_any(cards, card) == TRUE

FreeCell_can_accept_card(cards, card) == cards = <<>>

\* A faulty HomeStack.can_accept_card, which does not compare the suits.
HomeStack_any_suit(cards, card) ==
    \/ cards = <<>> /\ card.value = ACE
    \/ /\ cards /= <<>>
       /\ value_order(top_card(cards).value) = value_order(card.value) - 1

HomeStack_can_accept_card(cards, card) ==
    \/ cards = <<>> /\ card.value = ACE
    \/ /\ cards /= <<>>
       /\ top_card(cards).suit = card.suit
       /\ value_order(top_card(cards).value) = value_order(card.value) - 1

\* A faulty SourceStack.can_accept_card, which does not compare the colours.
SourceStack_any_color(cards, card) ==
    \/ cards = <<>>
    \/ value_order(top_card(cards).value) = value_order(card.value) + 1

SourceStack_can_accept_card(cards, card) ==
    \/ cards = <<>>
    \/ /\ suit_color(top_card(cards).suit) /= suit_color(card.suit)
       /\ value_order(top_card(cards).value) = value_order(card.value) + 1

(***************************************************************************)
(* The board.  A stack object is named by its class and its position in    *)
(* the Board's list of that class.                                         *)
(***************************************************************************)
StackRef(kind, index) == [kind |-> kind, index |-> index]

free_cell_refs == [i \in 1..NumFreeCells |-> StackRef("FreeCell", i)]

home_stack_refs == [i \in 1..NumHomeStacks |-> StackRef("HomeStack", i)]

source_stack_refs == [i \in 1..NumSourceStacks |-> StackRef("SourceStack", i)]

AllStackRefs ==
    {free_cell_refs[i] : i \in 1..NumFreeCells}
        \cup {home_stack_refs[i] : i \in 1..NumHomeStacks}
        \cup {source_stack_refs[i] : i \in 1..NumSourceStacks}

\* Board.__init__
NewBoard ==
    [free_cells |-> [i \in 1..NumFreeCells |-> <<>>],
     home_stacks |-> [i \in 1..NumHomeStacks |-> <<>>],
     source_stacks |-> [i \in 1..NumSourceStacks |-> <<>>],
     move_history |-> <<>>]

\* The cards of the stack a reference names.
CardsOf(b, ref) ==
    CASE ref.kind = "FreeCell" -> b.free_cells[ref.index]
      [] ref.kind = "HomeStack" -> b.home_stacks[ref.index]
      [] ref.kind = "SourceStack" -> b.source_stacks[ref.index]

WithCards(b, ref, cards) ==
    CASE ref.kind = "FreeCell" -> [b EXCEPT !.free_cells[ref.index] = cards]
      [] ref.kind = "HomeStack" -> [b EXCEPT !.home_stacks[ref.index] = cards]
      [] ref.kind = "SourceStack" -> [b EXCEPT !.source_stacks[ref.index] = cards]

\* The can_accept_card of the stack's class.
can_accept_card(b, ref, card) ==
    CASE ref.kind = "FreeCell" -> FreeCell_can_accept_card(CardsOf(b, ref), card)
      [] ref.kind = "HomeStack" -> HomeStack_can_accept_card(CardsOf(b, ref), card)
      [] ref.kind = "SourceStack" -> SourceStack_can_accept_card(CardsOf(b, ref), card)

Move(from_stack, to_stack) == [from_stack |-> from_stack, to_stack |-> to_stack]

RECURSIVE Concat(_)
Concat(seqs) == IF seqs = <<>> THEN <<>> ELSE Head(seqs) \o Concat(Tail(seqs))

\* A faulty generator, which offers the free cells to a card of a free cell too.
moves_from_any(b, from_stack) ==
    LET top == top_card(CardsOf(b, from_stack))
        to_stacks == home_stack_refs \o source_stack_refs \o free_cell_refs
        Accepts(to_stack) == to_stack /= from_stack /\ can_accept_card(b, to_stack, top)
        targets == SelectSeq(to_stacks, Accepts)
    IN  IF top = NoCard
        THEN <<>>
        ELSE [k \in 1..Len(targets) |-> Move(from_stack, targets[k])]

\* The moves all_valid_moves yields for one from_stack, in order.
moves_from(b, from_stack) ==
    LET top == top_card(CardsOf(b, from_stack))
        to_stacks ==
            IF from_stack.kind = "FreeCell"
            THEN home_stack_refs \o source_stack_refs
            ELSE home_stack_refs \o source_stack_refs \o free_cell_refs
        Accepts(to_stack) == to_stack /= from_stack /\ can_accept_card(b, to_stack, top)
        targets == SelectSeq(to_stacks, Accepts)
    IN  IF top = NoCard
        THEN <<>>
        ELSE [k \in 1..Len(targets) |-> Move(from_stack, targets[k])]

all_valid_moves(b) ==
    LET from_stacks == free_cell_refs \o source_stack_refs
    IN  Concat([k \in 1..Len(from_stacks) |-> moves_from(b, from_stacks[k])])

\* A faulty make_move, which pushes the card without popping it.
make_move_copy(b, move) ==
    LET card == top_card(CardsOf(b, move.from_stack))
        pushed == WithCards(b, move.to_stack, push_card(CardsOf(b, move.to_stack), card))
    IN  [pushed EXCEPT !.move_history = Append(@, move)]

\* A faulty make_move, which does not append the move to move_history.
make_move_no_history(b, move) ==
    LET card == top_card(CardsOf(b, move.from_stack))
        popped == WithCards(b, move.from_stack, pop_card(CardsOf(b, move.from_stack)))
    IN  WithCards(popped, move.to_stack, push_card(CardsOf(popped, move.to_stack), card))

\* make_move, for a move whose from_stack has a card.
make_move(b, move) ==
    LET card == top_card(CardsOf(b, move.from_stack))
        popped == WithCards(b, move.from_stack, pop_card(CardsOf(b, move.from_stack)))
        pushed == WithCards(popped, move.to_stack,
                            push_card(CardsOf(popped, move.to_stack), card))
    IN  [pushed EXCEPT !.move_history = Append(@, move)]

\* A faulty undo_last_move, which puts the card back without popping it.
undo_copies_back(b) ==
    LET move == b.move_history[Len(b.move_history)]
        shorter == [b EXCEPT !.move_history = SubSeq(@, 1, Len(@) - 1)]
        card == top_card(CardsOf(shorter, move.to_stack))
    IN  WithCards(shorter, move.from_stack, push_card(CardsOf(shorter, move.from_stack), card))

\* undo_last_move, for a non-empty history whose last move's to_stack has a card.
undo_last_move(b) ==
    LET move == b.move_history[Len(b.move_history)]
        shorter == [b EXCEPT !.move_history = SubSeq(@, 1, Len(@) - 1)]
        card == top_card(CardsOf(shorter, move.to_stack))
        popped == WithCards(shorter, move.to_stack, pop_card(CardsOf(shorter, move.to_stack)))
    IN  WithCards(popped, move.from_stack, push_card(CardsOf(popped, move.from_stack), card))

number_of_moves(b) == Len(b.move_history)

\* A faulty is_solved, which takes the rank below the King for the last one.
is_solved_below_king(b) ==
    /\ \A i \in 1..NumHomeStacks :
          top_card(b.home_stacks[i]) /= NoCard /\ top_card(b.home_stacks[i]).value = KING - 1
    /\ \A i \in 1..NumFreeCells : top_card(b.free_cells[i]) = NoCard
    /\ \A i \in 1..NumSourceStacks : top_card(b.source_stacks[i]) = NoCard

is_solved(b) ==
    /\ \A i \in 1..NumHomeStacks :
          top_card(b.home_stacks[i]) /= NoCard /\ top_card(b.home_stacks[i]).value = KING
    /\ \A i \in 1..NumFreeCells : top_card(b.free_cells[i]) = NoCard
    /\ \A i \in 1..NumSourceStacks : top_card(b.source_stacks[i]) = NoCard

(***************************************************************************)
(* load_game and save_game.  A text is a sequence of lines; a line is a    *)
(* sequence of tokens.                                                     *)
(***************************************************************************)
RECURSIVE load_line(_, _, _)
\* The inner loop of load_game: token n (0-based, within the line) goes to
\* source stack n mod the number of source stacks.
load_line(b, cards, n) ==
    IF n >= Len(cards)
    THEN b
    ELSE LET ref == source_stack_refs[(n % NumSourceStacks) + 1]
         IN  load_line(WithCards(b, ref, Append(CardsOf(b, ref), from_name(cards[n + 1]))),
                       cards, n + 1)

\* A faulty load_game, which goes on counting the tokens from line to line.
load_lines_joined(b, f) == load_line(b, Concat(f), 0)

RECURSIVE load_lines(_, _)
load_lines(b, f) ==
    IF f = <<>> THEN b ELSE load_lines(load_line(b, Head(f), 0), Tail(f))

load_game(f) == load_lines(NewBoard, f)

Blank == <<" ", " ">>

Bar == <<"|">>

cards_to_line(cards) ==
    [k \in 1..Len(cards) |-> IF cards[k] = NoCard THEN Blank ELSE card_str(cards[k])]

MaxOf(S) == CHOOSE x \in S : \A y \in S : y <= x

save_game(b) ==
    LET fc_line == cards_to_line([i \in 1..NumFreeCells |-> top_card(b.free_cells[i])])
        home_line == cards_to_line([i \in 1..NumHomeStacks |-> top_card(b.home_stacks[i])])
        num_rows == MaxOf({Len(b.source_stacks[i]) : i \in 1..NumSourceStacks})
        row_line(row) ==
            cards_to_line([i \in 1..NumSourceStacks |-> card_at(b.source_stacks[i], row)])
    IN  <<fc_line \o <<Bar>> \o home_line>> \o [row \in 1..num_rows |-> row_line(row - 1)]

\* Board.__hash__: the hash of the save_game text, taken to be free of collisions.
board_hash(b) == save_game(b)

(***************************************************************************)
(* Move ordering and the redundancy filter.                                *)
(***************************************************************************)
key_fn(move) ==
    CASE move.to_stack.kind = "HomeStack" -> 0
      [] move.to_stack.kind = "SourceStack" -> 1
      [] move.to_stack.kind = "FreeCell" -> 2

\* A faulty sort_moves_by_priority, which leaves the moves in the generator's order.
sort_moves_unsorted(moves) == moves

\* sorted(moves, key=key_fn) is stable: the moves of key 0 in their order, then
\* those of key 1, then those of key 2.
sort_moves_by_priority(moves) ==
    LET Key0(m) == key_fn(m) = 0
        Key1(m) == key_fn(m) = 1
        Key2(m) == key_fn(m) = 2
    IN  SelectSeq(moves, Key0) \o SelectSeq(moves, Key1) \o SelectSeq(moves, Key2)

\* str(top_card) of a stack: the card's text, or the text of None.
str_top(card) == IF card = NoCard THEN <<"None">> ELSE card_str(card)

\* A faulty equivalency key, which leaves out the card that moves.
equivalency_key_no_card(b, move) ==
    <<move.from_stack.kind,
      move.to_stack.kind,
      str_top(top_card(CardsOf(b, move.to_stack)))>>

equivalency_key(b, move) ==
    <<move.from_stack.kind,
      str_top(top_card(CardsOf(b, move.from_stack))),
      move.to_stack.kind,
      str_top(top_card(CardsOf(b, move.to_stack)))>>

RECURSIVE filter_from(_, _, _)
\* The loop of filter_redundant_moves, with the equivalency_set built so far.
filter_from(b, moves, equivalency_set) ==
    IF moves = <<>>
    THEN <<>>
    ELSE LET key == equivalency_key(b, Head(moves))
         IN  IF key \notin equivalency_set
             THEN <<Head(moves)>> \o filter_from(b, Tail(moves), equivalency_set \cup {key})
             ELSE filter_from(b, Tail(moves), equivalency_set)

filter_redundant_moves(b, moves) == filter_from(b, moves, {})

\* The candidate list of a search node (lines 316-317).
candidate_moves(b) == filter_redundant_moves(b, sort_moves_by_priority(all_valid_moves(b)))

(***************************************************************************)
(* The inputs: deals of the whole deck.                                    *)
(***************************************************************************)
Rotate(seq, k) == [i \in 1..Len(seq) |-> seq[((i - 1 + k) % Len(seq)) + 1]]

Reverse(seq) == [i \in 1..Len(seq) |-> seq[Len(seq) + 1 - i]]

\* The deck in the order for value in Value, for suit in Suit.
ByValue ==
    [k \in 1..Len(Generate) |->
        Card(SuitOrder[((k - 1) % Cardinality(Suit)) + 1], ((k - 1) \div Cardinality(Suit)) + 1)]

\* The cuts of an order of the deck, and their reversals.
Cuts(order) ==
    {Rotate(order, k) : k \in 0..(Len(order) - 1)}
        \cup {Reverse(Rotate(order, k)) : k \in 0..(Len(order) - 1)}

\* The shuffles of the deck the model deals: the cuts of the generated order
\* and of the order by value, and their reversals.
Shuffles == Cuts(Generate) \cup Cuts(ByValue)

\* The text of a deal: the cards' names, width names to a line.
DealText(cards, width) ==
    [l \in 1..((Len(cards) + width - 1) \div width) |->
        [k \in 1..(IF l * width <= Len(cards) THEN width ELSE Len(cards) - (l - 1) * width) |->
            card_str(cards[(l - 1) * width + k])]]

LineWidths == {NumSourceStacks, NumSourceStacks + 1}

Deals == {DealText(cards, width) : cards \in Shuffles, width \in LineWidths}

DepthLimits == (-1)..MaxDepth

(***************************************************************************)
(* State.                                                                  *)
(***************************************************************************)
VARIABLES
    deal,       \* the text load_game read
    board,      \* the Board: free_cells, home_stacks, source_stacks, move_history
    boards_seen,                  \* the hash values in the order they were added
    lookback_distance_histogram,  \* lookback distance -> count
    frames,     \* the activations of full_recursive_search, outermost first
    outcome,    \* "running", "returned", or "IndexError" (pop from an empty list)
    last,       \* history: the last two Board operations, and the board before a make_move
    twin,       \* history: a second board, which is played with surviving moves only
    lost,       \* history: the twin had no surviving move to answer with
    expanded    \* history: the hash values of the boards whose moves were generated

vars ==
    <<deal, board, boards_seen, lookback_distance_histogram, frames, outcome, last, twin, lost,
      expanded>>

history_vars == <<last, twin, lost, expanded>>

\* An activation: its depth_remaining, its moves list, the 1-based position of
\* the for loop in it, where it stands, and the board as it was on entry.
Frame(depth_remaining, b) ==
    [depth_remaining |-> depth_remaining, moves |-> <<>>, n |-> 1, pc |-> "start",
     entry |-> b]

Top == frames[Len(frames)]

\* boards_seen.get(hash_value): the index stored for it, or -1 for None.
boards_seen_get(hash_value) ==
    IF \E k \in 1..Len(boards_seen) : boards_seen[k] = hash_value
    THEN (CHOOSE k \in 1..Len(boards_seen) : boards_seen[k] = hash_value) - 1
    ELSE -1

Init ==
    /\ deal \in Deals
    /\ board = load_game(deal)
    /\ boards_seen = <<>>
    /\ lookback_distance_histogram = <<>>
    /\ \E depth_limit \in DepthLimits : frames = <<Frame(depth_limit, board)>>
    /\ outcome = "running"
    /\ last = [op |-> "load_game", prev_op |-> "none", before |-> NewBoard]
    /\ twin = board
    /\ lost = FALSE
    /\ expanded = <<>>

\* Leave the current activation; the outermost one ends the search.
Return(b) ==
    /\ frames' = SubSeq(frames, 1, Len(frames) - 1)
    /\ outcome' = IF Len(frames) = 1 THEN "returned" ELSE outcome
    /\ board' = b

\* Lines 300-301.
DepthExhausted ==
    /\ outcome = "running"
    /\ Top.pc = "start"
    /\ Top.depth_remaining < 0
    /\ Return(board)
    /\ UNCHANGED <<deal, boards_seen, lookback_distance_histogram, last, twin, lost, expanded>>

\* Lines 316-317.
GenerateMoves ==
    /\ outcome = "running"
    /\ Top.pc = "start"
    /\ Top.depth_remaining >= 0
    /\ frames' = [frames EXCEPT ![Len(frames)] =
                     [@ EXCEPT !.moves = candidate_moves(board), !.pc = "for"]]
    /\ expanded' = Append(expanded, board_hash(board))
    /\ UNCHANGED <<deal, board, boards_seen, lookback_distance_histogram, outcome, last, twin, lost>>

\* The for loop of line 318 has no move left.
MovesExhausted ==
    /\ outcome = "running"
    /\ Top.pc = "for"
    /\ Top.n > Len(Top.moves)
    /\ Return(board)
    /\ UNCHANGED <<deal, boards_seen, lookback_distance_histogram, last, twin, lost, expanded>>

can_pop(b, ref) == CardsOf(b, ref) /= <<>>

\* Lines 320-324: the move solves the board.
TryMoveSolved ==
    /\ outcome = "running"
    /\ Top.pc = "for"
    /\ Top.n <= Len(Top.moves)
    /\ LET move == Top.moves[Top.n]
       IN  IF ~can_pop(board, move.from_stack)
           THEN /\ outcome' = "IndexError"
                /\ UNCHANGED <<deal, board, boards_seen, lookback_distance_histogram, frames>>
           ELSE /\ is_solved(make_move(board, move))
                /\ Return(make_move(board, move))
                /\ UNCHANGED <<deal, boards_seen, lookback_distance_histogram>>
    /\ UNCHANGED history_vars

\* Lines 320-329: the board after the move is new; record it and recurse.
TryMoveRecurse ==
    /\ outcome = "running"
    /\ Top.pc = "for"
    /\ Top.n <= Len(Top.moves)
    /\ LET move == Top.moves[Top.n]
           moved == make_move(board, move)
           hash_value == board_hash(moved)
       IN  /\ can_pop(board, move.from_stack)
           /\ ~is_solved(moved)
           /\ boards_seen_get(hash_value) = -1
           /\ board' = moved
           /\ boards_seen' = Append(boards_seen, hash_value)
           /\ frames' = Append([frames EXCEPT ![Len(frames)] = [@ EXCEPT !.pc = "called"]],
                               Frame(Top.depth_remaining - 1, moved))
    /\ UNCHANGED <<deal, lookback_distance_histogram, outcome, last, twin, lost, expanded>>

\* The histogram with one more occurrence of a distance.
histogram_add(histogram, distance) ==
    IF distance \in DOMAIN histogram
    THEN [histogram EXCEPT ![distance] = @ + 1]
    ELSE [d \in DOMAIN histogram \cup {distance} |->
             IF d = distance THEN 1 ELSE histogram[d]]

\* A faulty undo_last_move, which raises whatever the board.
can_undo_never(b) == FALSE

\* undo_last_move raises no IndexError: there is a move to pop off the
\* history, and its to_stack has a card to pop.
can_undo(b) ==
    /\ b.move_history /= <<>>
    /\ can_pop(b, b.move_history[Len(b.move_history)].to_stack)

\* A faulty undo_last_move, which has emptied the board when it raises.
undo_raised_empties(b) == NewBoard

\* The board an undo_last_move that raises leaves behind: the move is off the
\* history when it is the to_stack that was empty.
undo_raised(b) ==
    IF b.move_history = <<>>
    THEN b
    ELSE [b EXCEPT !.move_history = SubSeq(@, 1, Len(@) - 1)]

\* A faulty pruning branch, which goes on to the next move without undoing.
TryMovePruned_no_undo ==
    /\ outcome = "running"
    /\ Top.pc = "for"
    /\ Top.n <= Len(Top.moves)
    /\ LET move == Top.moves[Top.n]
           moved == make_move(board, move)
           board_seen_at == boards_seen_get(board_hash(moved))
           lookback_distance == Len(boards_seen) - board_seen_at
       IN  /\ can_pop(board, move.from_stack)
           /\ ~is_solved(moved)
           /\ board_seen_at /= -1
           /\ lookback_distance_histogram' =
                  histogram_add(lookback_distance_histogram, lookback_distance)
           /\ board' = moved
           /\ frames' = [frames EXCEPT ![Len(frames)] = [@ EXCEPT !.n = @ + 1]]
    /\ UNCHANGED <<deal, boards_seen, outcome, last, twin, lost, expanded>>

\* Lines 320-336: the board after the move was seen before; count and undo.
TryMovePruned ==
    /\ outcome = "running"
    /\ Top.pc = "for"
    /\ Top.n <= Len(Top.moves)
    /\ LET move == Top.moves[Top.n]
           moved == make_move(board, move)
           board_seen_at == boards_seen_get(board_hash(moved))
           lookback_distance == Len(boards_seen) - board_seen_at
       IN  /\ can_pop(board, move.from_stack)
           /\ ~is_solved(moved)
           /\ board_seen_at /= -1
           /\ lookback_distance_histogram' =
                  histogram_add(lookback_distance_histogram, lookback_distance)
           /\ IF can_undo(moved)
              THEN /\ board' = undo_last_move(moved)
                   /\ frames' = [frames EXCEPT ![Len(frames)] = [@ EXCEPT !.n = @ + 1]]
                   /\ outcome' = outcome
              ELSE /\ board' = undo_raised(moved)
                   /\ outcome' = "IndexError"
                   /\ frames' = frames
    /\ UNCHANGED <<deal, boards_seen, last, twin, lost, expanded>>

\* Lines 330-331: the recursive call came back with the board solved.
AfterCallSolved ==
    /\ outcome = "running"
    /\ Top.pc = "called"
    /\ is_solved(board)
    /\ Return(board)
    /\ UNCHANGED <<deal, boards_seen, lookback_distance_histogram, last, twin, lost, expanded>>

\* A faulty loop, which goes on to the next move without undoing the last.
AfterCallUndo_no_undo ==
    /\ outcome = "running"
    /\ Top.pc = "called"
    /\ ~is_solved(board)
    /\ frames' = [frames EXCEPT ![Len(frames)] = [@ EXCEPT !.n = @ + 1, !.pc = "for"]]
    /\ UNCHANGED <<deal, board, boards_seen, lookback_distance_histogram, outcome, last, twin, lost,
                   expanded>>

\* A faulty loop, which undoes the move without looking at is_solved.
AfterCallUndo_unchecked ==
    /\ outcome = "running"
    /\ Top.pc = "called"
    /\ IF can_undo(board)
       THEN /\ board' = undo_last_move(board)
            /\ frames' = [frames EXCEPT ![Len(frames)] = [@ EXCEPT !.n = @ + 1, !.pc = "for"]]
            /\ outcome' = outcome
       ELSE /\ board' = undo_raised(board)
            /\ outcome' = "IndexError"
            /\ frames' = frames
    /\ UNCHANGED <<deal, boards_seen, lookback_distance_histogram, last, twin, lost, expanded>>

\* Lines 330, 336: the recursive call came back unsolved; undo and go on.
AfterCallUndo ==
    /\ outcome = "running"
    /\ Top.pc = "called"
    /\ ~is_solved(board)
    /\ IF can_undo(board)
       THEN /\ board' = undo_last_move(board)
            /\ frames' = [frames EXCEPT ![Len(frames)] = [@ EXCEPT !.n = @ + 1, !.pc = "for"]]
            /\ outcome' = outcome
       ELSE /\ board' = undo_raised(board)
            /\ outcome' = "IndexError"
            /\ frames' = frames
    /\ UNCHANGED <<deal, boards_seen, lookback_distance_histogram, last, twin, lost, expanded>>

Next ==
    \/ DepthExhausted
    \/ GenerateMoves
    \/ MovesExhausted
    \/ TryMoveSolved
    \/ TryMoveRecurse
    \/ TryMovePruned
    \/ AfterCallSolved
    \/ AfterCallUndo

Spec == Init /\ [][Next]_vars

\* The search as the interpreter runs it: it does not stop while a step can be
\* taken.  This is weak fairness of Next, with the enabling condition of
\* <<Next>>_vars written out: a step of Next can be taken, and changes the
\* state, exactly while outcome = "running".
FairSpec == Spec /\ ([]<>(outcome /= "running") \/ []<><<Next>>_vars)

(***************************************************************************)
(* The search, and a caller that calls undo_last_move on the board the     *)
(* search has returned, until the call raises.                             *)
(***************************************************************************)
\* Lines 191-193, called on the board after full_recursive_search returned.
CallerUndo ==
    /\ outcome = "returned"
    /\ IF can_undo(board)
       THEN /\ board' = undo_last_move(board)
            /\ outcome' = outcome
       ELSE /\ board' = undo_raised(board)
            /\ outcome' = "IndexError"
    /\ last' = [op |-> "undo_last_move", prev_op |-> last.op, before |-> board]
    /\ UNCHANGED <<deal, boards_seen, lookback_distance_histogram, frames, twin, lost, expanded>>

CallerNext ==
    \/ DepthExhausted
    \/ GenerateMoves
    \/ MovesExhausted
    \/ TryMoveSolved
    \/ TryMoveRecurse
    \/ TryMovePruned
    \/ AfterCallSolved
    \/ AfterCallUndo
    \/ CallerUndo

CallerSpec == Init /\ [][CallerNext]_vars

(***************************************************************************)
(* Free play: a driver that, like random_search, makes any of the moves    *)
(* all_valid_moves yields and undoes moves, with at most MaxHistory moves  *)
(* made and not undone.                                                    *)
(***************************************************************************)
PlayInit ==
    /\ deal \in Deals
    /\ board = load_game(deal)
    /\ boards_seen = <<>>
    /\ lookback_distance_histogram = <<>>
    /\ frames = <<>>
    /\ outcome = "running"
    /\ last = [op |-> "load_game", prev_op |-> "none", before |-> NewBoard]
    /\ twin = board
    /\ lost = FALSE
    /\ expanded = <<>>

\* Lines 242-248.
PlayMakeMove ==
    /\ outcome = "running"
    /\ number_of_moves(board) < MaxHistory
    /\ LET moves == all_valid_moves(board)
       IN  \E k \in 1..Len(moves) :
              /\ board' = make_move(board, moves[k])
              /\ last' = [op |-> "make_move", prev_op |-> last.op, before |-> board]
    /\ UNCHANGED <<deal, boards_seen, lookback_distance_histogram, frames, outcome, twin, lost, expanded>>

\* Lines 261-263, and undo_last_move called with nothing to undo.
PlayUndo ==
    /\ outcome = "running"
    /\ IF can_undo(board)
       THEN /\ board' = undo_last_move(board)
            /\ outcome' = outcome
       ELSE /\ outcome' = "IndexError"
            /\ board' = undo_raised(board)
    /\ last' = [op |-> "undo_last_move", prev_op |-> last.op,
                before |-> IF last.op = "make_move" THEN last.before ELSE NewBoard]
    /\ UNCHANGED <<deal, boards_seen, lookback_distance_histogram, frames, twin, lost, expanded>>

PlayNext == PlayMakeMove \/ PlayUndo

PlaySpec == PlayInit /\ [][PlayNext]_vars

(***************************************************************************)
(* Reachability with and without the redundancy filter.  The board is      *)
(* played with any move all_valid_moves yields; the twin answers each of   *)
(* them with a move that survives sort_moves_by_priority and               *)
(* filter_redundant_moves on the twin and has the same equivalency key.    *)
(* Which moves exist does not depend on move_history, which is forgotten   *)
(* here, so that the configurations are finitely many and all are reached. *)
(***************************************************************************)
Forget(b) == [b EXCEPT !.move_history = <<>>]

\* The surviving moves of the twin that have the key of move on b.
Answers(b, move, t) ==
    LET moves == candidate_moves(t)
    IN  {moves[j] : j \in {i \in 1..Len(moves) :
                              equivalency_key(t, moves[i]) = equivalency_key(b, move)}}

TwinMove ==
    /\ ~lost
    /\ LET moves == all_valid_moves(board)
       IN  \E k \in 1..Len(moves) :
              LET answers == Answers(board, moves[k], twin)
              IN  /\ board' = Forget(make_move(board, moves[k]))
                  /\ IF answers = {}
                     THEN lost' = TRUE /\ twin' = twin
                     ELSE /\ lost' = FALSE
                          /\ \E answer \in answers : twin' = Forget(make_move(twin, answer))
    /\ UNCHANGED <<deal, boards_seen, lookback_distance_histogram, frames, outcome, last, expanded>>

\* The walk starts from the deals of the cuts of the generated order.
TwinInit ==
    /\ PlayInit
    /\ deal \in {DealText(cards, width) : cards \in Cuts(Generate), width \in LineWidths}

TwinSpec == TwinInit /\ [][TwinMove]_vars

(***************************************************************************)
(* Properties.                                                             *)
(***************************************************************************)
\* The board load_game made of the deal.
Dealt == load_game(deal)

\* C1 (backtrack integrity): every activation of full_recursive_search, the
\* outermost one and every nested one, that returns while the board is not
\* solved leaves the free cells, the home stacks, the source stacks and
\* move_history exactly as they were when the activation was entered.
C1_BacktrackIntegrity ==
    [][(Len(frames') < Len(frames) /\ ~is_solved(board')) => board' = Top.entry]_vars

\* The outermost call has returned unsolved after it recorded and explored
\* boards, and the board is the dealt one again.
C1_Witness ==
    /\ outcome = "returned"
    /\ ~is_solved(board)
    /\ Len(boards_seen) >= 2
    /\ board = Dealt

RECURSIVE ReplayWins(_, _)
\* Replaying moves from b: every move is legal when its turn comes (its
\* from_stack has a card that its to_stack accepts), and the last leaves b solved.
ReplayWins(b, moves) ==
    IF moves = <<>>
    THEN is_solved(b)
    ELSE LET move == Head(moves)
         IN  /\ can_pop(b, move.from_stack)
             /\ can_accept_card(b, move.to_stack, top_card(CardsOf(b, move.from_stack)))
             /\ ReplayWins(make_move(b, move), Tail(moves))

\* C2 (winning history): when the outermost full_recursive_search returns with
\* the board solved, move_history replayed from the dealt board is a sequence of
\* moves each legal at its turn, and it ends in a solved board.
C2_WinningHistory ==
    (outcome = "returned" /\ is_solved(board)) =>
        ReplayWins(Dealt, board.move_history)

C2_Witness ==
    /\ outcome = "returned"
    /\ is_solved(board)
    /\ Len(board.move_history) >= Cardinality(DeckCards)
    /\ Len(boards_seen) >= 1

\* C3 (move invertibility): a make_move of a move all_valid_moves yielded,
\* followed at once by undo_last_move, leaves the board (every stack and
\* move_history) as it was before the move, hence with the same save_game text.
C3_MoveInvertibility ==
    (last.op = "undo_last_move" /\ last.prev_op = "make_move" /\ outcome = "running") =>
        /\ board = last.before
        /\ board_hash(board) = board_hash(last.before)

C3_Witness ==
    /\ last.op = "undo_last_move"
    /\ last.prev_op = "make_move"
    /\ outcome = "running"
    /\ number_of_moves(board) >= 1

\* All the cards on the board, stack after stack.
AllCards(b) ==
    Concat(b.free_cells) \o Concat(b.home_stacks) \o Concat(b.source_stacks)

\* C4 (card conservation): in every state of the search the cards in the free
\* cells, home stacks and source stacks together are the dealt deck, each card
\* exactly once.
C4_CardConservation ==
    LET cards == AllCards(board)
    IN  /\ Len(cards) = Cardinality(DeckCards)
        /\ \A card \in DeckCards :
              Cardinality({k \in 1..Len(cards) : cards[k] = card}) = 1

\* Moves are on the board: a card lies in a free cell and one on a home stack.
C4_Witness ==
    /\ \E i \in 1..NumFreeCells : board.free_cells[i] /= <<>>
    /\ \E i \in 1..NumHomeStacks : board.home_stacks[i] /= <<>>
    /\ number_of_moves(board) >= 2

\* A home stack holds, bottom to top, the ranks 1..k of one suit.
IsRun(cards) ==
    \A k \in 1..Len(cards) : cards[k].value = k /\ cards[k].suit = cards[1].suit

\* C5 (foundation monotonicity): every step that puts a card on a home stack
\* puts an Ace on an empty one, or else a card of the suit of the former top
\* and of the next rank; and every home stack holds the ranks 1..k of one suit.
C5_FoundationMonotonicity ==
    [][\A i \in 1..NumHomeStacks :
          LET old == board.home_stacks[i]
              new == board'.home_stacks[i]
          IN  /\ Len(new) > Len(old) =>
                    /\ Len(new) = Len(old) + 1
                    /\ SubSeq(new, 1, Len(old)) = old
                    /\ IF old = <<>>
                       THEN top_card(new).value = ACE
                       ELSE /\ top_card(new).suit = top_card(old).suit
                            /\ top_card(new).value = top_card(old).value + 1
              /\ IsRun(new)]_vars

C5_Witness ==
    \E i \in 1..NumHomeStacks :
        /\ Len(board.home_stacks[i]) >= 2
        /\ \E j \in 1..NumHomeStacks : j /= i /\ board.home_stacks[j] /= <<>>

\* The upper of two adjacent cards of a source stack is of the other colour
\* and one rank lower.
Alternates(lower, upper) ==
    /\ suit_color(lower.suit) /= suit_color(upper.suit)
    /\ value_order(lower.value) = value_order(upper.value) + 1

\* C6 as claimed (column alternation): from the dealt board on, no source
\* stack ever has two adjacent cards that fail to alternate.
C6_Claimed ==
    \A i \in 1..NumSourceStacks :
        \A k \in 1..(Len(board.source_stacks[i]) - 1) :
            Alternates(board.source_stacks[i][k], board.source_stacks[i][k + 1])

\* C6 as amended: two adjacent cards of a source stack that fail to alternate
\* are cards load_game dealt to that stack at those two positions.
C6_ColumnAlternation ==
    \A i \in 1..NumSourceStacks :
        \A k \in 1..(Len(board.source_stacks[i]) - 1) :
            LET stack == board.source_stacks[i]
                dealt == Dealt.source_stacks[i]
            IN  \/ Alternates(stack[k], stack[k + 1])
                \/ /\ k + 1 <= Len(dealt)
                   /\ dealt[k] = stack[k]
                   /\ dealt[k + 1] = stack[k + 1]

\* A move has put a card on a card of a source stack, and a dealt pair that
\* does not alternate is still in place.
C6_Witness ==
    /\ \E i \in 1..NumSourceStacks :
          \E k \in 1..(Len(board.source_stacks[i]) - 1) :
              \/ k + 1 > Len(Dealt.source_stacks[i])
              \/ Dealt.source_stacks[i][k + 1] /= board.source_stacks[i][k + 1]
    /\ ~C6_Claimed

\* The board with the stacks of each class put in another order.
Permuted(b, pf, ph, ps) ==
    [b EXCEPT !.free_cells = [i \in 1..NumFreeCells |-> b.free_cells[pf[i]]],
              !.home_stacks = [i \in 1..NumHomeStacks |-> b.home_stacks[ph[i]]],
              !.source_stacks = [i \in 1..NumSourceStacks |-> b.source_stacks[ps[i]]]]

Identity(n) == [i \in 1..n |-> i]

\* Two boards differ at most in which stack of a class holds which cards.
SameUpToSlots(a, b) ==
    \E pf \in Permutations(1..NumFreeCells) :
        \E ph \in Permutations(1..NumHomeStacks) :
            \E ps \in Permutations(1..NumSourceStacks) :
                Permuted(a, pf, ph, ps) = b

\* The moves of a sequence, as a set.
MoveSet(moves) == {moves[k] : k \in 1..Len(moves)}

\* C7 (dedup soundness): whatever board is reached from a dealt board with the
\* moves of all_valid_moves, a board that differs from it at most in which
\* stack of a class holds which cards is reached with surviving moves only
\* (moves that filter_redundant_moves keeps of the sorted all_valid_moves), so
\* a solved board is reached with surviving moves exactly when one is reached
\* with all moves; the surviving moves are themselves moves of all_valid_moves.
C7_DedupSoundness ==
    /\ ~lost
    /\ SameUpToSlots(twin, board)
    /\ is_solved(board) <=> is_solved(twin)
    /\ MoveSet(candidate_moves(twin)) \subseteq MoveSet(all_valid_moves(twin))

\* Both are solved, by different moves: the twin's stacks are in another order.
C7_Witness ==
    /\ is_solved(board)
    /\ is_solved(twin)
    /\ twin /= board

\* The moves the generator is claimed to yield: one for every ordered pair of
\* distinct stacks of any class whose first has a top card the second accepts.
ClaimedMoves(b) ==
    {Move(from_stack, to_stack) : from_stack \in AllStackRefs, to_stack \in AllStackRefs}
        \cap {m \in [from_stack : AllStackRefs, to_stack : AllStackRefs] :
                /\ m.from_stack /= m.to_stack
                /\ top_card(CardsOf(b, m.from_stack)) /= NoCard
                /\ can_accept_card(b, m.to_stack, top_card(CardsOf(b, m.from_stack)))}

\* The sequence has no move twice.
NoRepeats(moves) ==
    \A j, k \in 1..Len(moves) : moves[j] = moves[k] => j = k

\* C8 as claimed (generator completeness and soundness): all_valid_moves
\* yields exactly one move for every ordered pair of distinct stacks of any
\* class whose first has a top card that the second accepts, and no other.
C8_Claimed ==
    /\ MoveSet(all_valid_moves(board)) = ClaimedMoves(board)
    /\ NoRepeats(all_valid_moves(board))

\* C8 as amended: all_valid_moves yields exactly one move for every ordered
\* pair of distinct stacks whose first is a free cell or a source stack with a
\* top card that the second accepts, except the pairs of two free cells; it
\* yields no move from a home stack and no other move.
C8_GeneratorMoves ==
    /\ MoveSet(all_valid_moves(board)) =
          {m \in ClaimedMoves(board) :
              /\ m.from_stack.kind /= "HomeStack"
              /\ ~(m.from_stack.kind = "FreeCell" /\ m.to_stack.kind = "FreeCell")}
    /\ NoRepeats(all_valid_moves(board))

\* Moves were made, and the amended set is smaller than the claimed one both
\* by a move from a home stack and by a move between free cells.
C8_Witness ==
    /\ last.op = "make_move"
    /\ \E m \in ClaimedMoves(board) : m.from_stack.kind = "HomeStack"
    /\ \E m \in ClaimedMoves(board) :
          m.from_stack.kind = "FreeCell" /\ m.to_stack.kind = "FreeCell"
    /\ all_valid_moves(board) /= <<>>

\* C9 (solved check): is_solved holds exactly when every home stack has a King
\* on top and every free cell and source stack is empty; and in every state
\* of the search that is so exactly when every card of the deck lies on a home
\* stack and every home stack is a full run from the Ace to the King of a suit.
C9_SolvedCheck ==
    /\ is_solved(board) <=>
          /\ \A i \in 1..NumHomeStacks :
                /\ board.home_stacks[i] /= <<>>
                /\ board.home_stacks[i][Len(board.home_stacks[i])].value = KING
          /\ \A i \in 1..NumFreeCells : board.free_cells[i] = <<>>
          /\ \A i \in 1..NumSourceStacks : board.source_stacks[i] = <<>>
    /\ is_solved(board) <=>
          /\ \A card \in DeckCards :
                \E i \in 1..NumHomeStacks :
                    \E k \in 1..Len(board.home_stacks[i]) : board.home_stacks[i][k] = card
          /\ \A i \in 1..NumHomeStacks :
                /\ Len(board.home_stacks[i]) = NumValues
                /\ IsRun(board.home_stacks[i])

C9_Witness ==
    /\ is_solved(board)
    /\ outcome = "returned"

\* C10 as claimed (fingerprint slot-order independence): putting the free
\* cells, or the home stacks, of a board in another order leaves the save_game
\* text, and so the key in boards_seen, the same.
C10_Claimed ==
    \A pf \in Permutations(1..NumFreeCells) :
        \A ph \in Permutations(1..NumHomeStacks) :
            board_hash(Permuted(board, pf, ph, Identity(NumSourceStacks))) = board_hash(board)

\* C11 (undo on empty history): a call of undo_last_move on a board whose
\* move_history is empty raises and leaves every stack and move_history as
\* they were; and no step of full_recursive_search calls undo_last_move on a
\* board whose move_history is empty: when a recursive call has come back
\* with the board unsolved, move_history is not empty, and no step of the
\* search ends in an IndexError.
C11_UndoOnEmptyHistory ==
    [][/\ (last'.op = "undo_last_move" /\ last' /= last /\ board.move_history = <<>>) =>
              (outcome' = "IndexError" /\ board' = board)
       /\ (outcome = "running" /\ Top.pc = "called" /\ ~is_solved(board)) =>
              board.move_history /= <<>>
       /\ outcome = "running" => outcome' /= "IndexError"]_vars

\* The search has recorded boards and undone its moves, and the caller's
\* undo_last_move on the returned board, whose history is empty, has raised.
C11_Witness ==
    /\ outcome = "IndexError"
    /\ last.op = "undo_last_move"
    /\ last.before.move_history = <<>>
    /\ Len(boards_seen) >= 2

\* The tokens of a text, line after line.
Tokens(f) == Concat(f)

\* The tokens broken into lines of width tokens, the last one shorter.
Lines(tokens, width) ==
    [l \in 1..((Len(tokens) + width - 1) \div width) |->
        SubSeq(tokens, (l - 1) * width + 1,
               IF l * width <= Len(tokens) THEN l * width ELSE Len(tokens))]

\* The cards of the tokens at the 0-based positions c - 1, c - 1 + N, ... of a
\* sequence of tokens, N the number of source stacks.
Share(tokens, c) ==
    [k \in 1..((Len(tokens) + NumSourceStacks - c) \div NumSourceStacks) |->
        from_name(tokens[(k - 1) * NumSourceStacks + c])]

\* The board with token i of the token sequence on source stack i mod N.
RoundRobin(tokens) ==
    [NewBoard EXCEPT !.source_stacks = [c \in 1..NumSourceStacks |-> Share(tokens, c)]]

\* C12 as claimed (deal loader): load_game puts token i of the whole token
\* sequence, counted across the lines from 0, on source stack i mod N, so the
\* same tokens broken into lines in another way give the same board.
C12_Claimed ==
    /\ Dealt = RoundRobin(Tokens(deal))
    /\ \A width \in 1..Len(Tokens(deal)) : load_game(Lines(Tokens(deal), width)) = Dealt

\* C12 as amended: load_game puts token n of each line, counted from 0 within
\* the line, on source stack n mod N, the lines in their order; the same
\* tokens broken into lines of which all but the last hold a multiple of N
\* tokens give the board with token i of the whole sequence on stack i mod N.
C12_DealLoader ==
    /\ \A c \in 1..NumSourceStacks :
          Dealt.source_stacks[c] = Concat([l \in 1..Len(deal) |-> Share(deal[l], c)])
    /\ Dealt.free_cells = NewBoard.free_cells
    /\ Dealt.home_stacks = NewBoard.home_stacks
    /\ Dealt.move_history = <<>>
    /\ (\A l \in 1..(Len(deal) - 1) : Len(deal[l]) % NumSourceStacks = 0) =>
          Dealt = RoundRobin(Tokens(deal))
    /\ \A width \in 1..Len(Tokens(deal)) :
          width % NumSourceStacks = 0 =>
              load_game(Lines(Tokens(deal), width)) = RoundRobin(Tokens(deal))

\* The board is the one load_game made of a deal whose line breaks matter:
\* a line starts anew at source stack 0 where the count across lines would not.
C12_Witness ==
    /\ board = Dealt
    /\ Dealt /= RoundRobin(Tokens(deal))
    /\ \E l \in 1..(Len(deal) - 1) : Len(deal[l]) % NumSourceStacks /= 0

\* C13 as claimed (no configuration is expanded twice): in one search the
\* moves of a board with a given hash value, the dealt board's included, are
\* generated (full_recursive_search is entered on it with depth_remaining >= 0)
\* at most once.
C13_Claimed == NoRepeats(expanded)

\* C14 as claimed (depth budget): while an activation of
\* full_recursive_search entered with depth_remaining = d >= 0 is running, the
\* number of moves made beyond the board it was entered on is at most d.
C14_Claimed ==
    \A i \in 1..Len(frames) :
        frames[i].depth_remaining >= 0 =>
            number_of_moves(board) - number_of_moves(frames[i].entry)
                <= frames[i].depth_remaining

\* C15 (termination): whatever the dealt board and the depth limit, the
\* outermost full_recursive_search eventually returns.
C15_Termination == <>(outcome = "returned")

\* The search has returned unsolved after it met boards it had seen before.
C15_Witness ==
    /\ outcome = "returned"
    /\ ~is_solved(board)
    /\ DOMAIN lookback_distance_histogram /= {}
    /\ Len(expanded) >= 3

\* The move is legal on b: its from_stack has a card, and its to_stack, another
\* stack, accepts that card.
Legal(b, move) ==
    /\ can_pop(b, move.from_stack)
    /\ move.from_stack /= move.to_stack
    /\ can_accept_card(b, move.to_stack, top_card(CardsOf(b, move.from_stack)))

\* C16 (applied moves stay legal): the move the for loop of an activation is
\* about to apply, the first of its list or a later one, is legal on the board
\* as it is then; the undo_last_move after a recursive call finds a move in
\* move_history and a card on its to_stack; and no pop_card on an empty stack
\* ever ends the search.
C16_AppliedMovesLegal ==
    /\ outcome /= "IndexError"
    /\ (outcome = "running" /\ Top.pc = "for" /\ Top.n <= Len(Top.moves)) =>
          /\ Legal(board, Top.moves[Top.n])
          /\ can_undo(make_move(board, Top.moves[Top.n]))
    /\ (outcome = "running" /\ Top.pc = "called" /\ ~is_solved(board)) => can_undo(board)

\* A nested activation is about to apply the third or a later move of its
\* list, after earlier ones were applied and undone.
C16_Witness ==
    /\ outcome = "running"
    /\ Len(frames) >= 2
    /\ Top.pc = "for"
    /\ Top.n >= 3
    /\ Top.n <= Len(Top.moves)
    /\ DOMAIN lookback_distance_histogram /= {}

\* The position of a move in a sequence of moves that holds it.
PositionIn(moves, move) == CHOOSE k \in 1..Len(moves) : moves[k] = move

\* The list is in ascending priority, and two moves of one priority class are
\* in the order in which all_valid_moves yields them on b.
InPriorityOrder(b, moves) ==
    \A j, k \in 1..Len(moves) :
        j < k =>
            /\ key_fn(moves[j]) <= key_fn(moves[k])
            /\ key_fn(moves[j]) = key_fn(moves[k]) =>
                  PositionIn(all_valid_moves(b), moves[j])
                      < PositionIn(all_valid_moves(b), moves[k])

\* C17 (move ordering): the list of every activation that has generated its
\* moves holds moves of all_valid_moves on the board it was entered on, in
\* ascending priority (to a home stack, to a source stack, to a free cell)
\* and in the generator's order inside a priority class; the loop has tried
\* the moves before position n, so when it applies a move, every move of the
\* list of a lower priority number has been tried.
ListsInOrder ==
    \A i \in 1..Len(frames) :
        frames[i].pc /= "start" =>
            /\ MoveSet(frames[i].moves) \subseteq MoveSet(all_valid_moves(frames[i].entry))
            /\ InPriorityOrder(frames[i].entry, frames[i].moves)
            /\ frames[i].n <= Len(frames[i].moves) =>
                  \A k \in 1..Len(frames[i].moves) :
                      key_fn(frames[i].moves[k]) < key_fn(frames[i].moves[frames[i].n]) =>
                          k < frames[i].n

\* The loop of an activation keeps its list and goes through it one by one,
\* and the move a step applies is the one at position n of the list.
OneByOne ==
    /\ \A i \in 1..Len(frames) :
          (i <= Len(frames') /\ frames[i].pc /= "start") =>
              /\ frames'[i].moves = frames[i].moves
              /\ frames'[i].n \in {frames[i].n, frames[i].n + 1}
    /\ number_of_moves(board') > number_of_moves(board) =>
          /\ Top.pc = "for"
          /\ board' = make_move(board, Top.moves[Top.n])

C17_MoveOrdering == []ListsInOrder /\ [][OneByOne]_vars

\* An activation is about to apply a move onto a free cell, after moves onto
\* a home stack and onto a source stack of the same list.
C17_Witness ==
    /\ outcome = "running"
    /\ Top.pc = "for"
    /\ Top.n <= Len(Top.moves)
    /\ key_fn(Top.moves[Top.n]) = 2
    /\ \E j, k \in 1..(Top.n - 1) : key_fn(Top.moves[j]) = 0 /\ key_fn(Top.moves[k]) = 1

\* The boards one generator move away from b, move_history left out.
Successors(b) ==
    LET moves == all_valid_moves(b)
    IN  {Forget(make_move(b, moves[k])) : k \in 1..Len(moves)}

RECURSIVE Within(_, _)
\* The boards reached from those of S by at most n generator moves.
Within(S, n) ==
    IF n <= 0 THEN S ELSE Within(S \cup UNION {Successors(b) : b \in S}, n - 1)

\* A solved board is reached from b by at most n generator moves.
SolvableWithin(b, n) == \E x \in Within({Forget(b)}, n) : is_solved(x)

\* C18 as claimed (pruning never loses a solution): when the outermost
\* full_recursive_search, entered with depth_remaining = d, has gone through
\* all its moves and is about to return with the board unsolved, no solved
\* board is reached from the dealt board by d or fewer generator moves.
C18_Claimed ==
    (/\ outcome = "running"
     /\ Len(frames) = 1
     /\ Top.pc = "for"
     /\ Top.n > Len(Top.moves)
     /\ ~is_solved(board)) =>
        ~SolvableWithin(Dealt, Top.depth_remaining)

\* C19 (terminal success is stable): from the state in which the board is
\* solved on, no step changes the board or move_history, and every
\* activation still running stands after its recursive call, from where it
\* returns without a make_move or an undo_last_move.
C19_TerminalSuccessStable ==
    /\ [](is_solved(board) => \A i \in 1..Len(frames) : frames[i].pc = "called")
    /\ [][is_solved(board) => board' = board]_vars

\* The board is solved and the return is on its way up through several
\* activations.
C19_Witness ==
    /\ is_solved(board)
    /\ outcome = "running"
    /\ Len(frames) >= 3

\* The free cells as the first line of a save_game text tells them.
FreeCellsOfText(text) ==
    [i \in 1..NumFreeCells |->
        IF text[1][i] = Blank THEN <<>> ELSE <<from_name(text[1][i])>>]

\* C20 (holding-cell capacity): after any generator moves and undos on a dealt
\* board every free cell holds at most one card, and the free cells are what
\* the save_game text tells of them.
C20_HoldingCellCapacity ==
    /\ \A i \in 1..NumFreeCells : Len(board.free_cells[i]) <= 1
    /\ FreeCellsOfText(save_game(board)) = board.free_cells

\* Every free cell holds a card, so that a move onto a free cell would put a
\* card on a card.
C20_Witness ==
    /\ \A i \in 1..NumFreeCells : Len(board.free_cells[i]) = 1
    /\ last.op = "make_move"

====
